---- MODULE Spec2Model ----
(***************************************************************************)
(* baserow-emailer: the Runner (app/main.py), the Emailer Pipeline         *)
(* (app/emailer.py, process_emailer_config) and the Mail Sender            *)
(* (app/send_email.py) as a state machine over the row store.              *)
(*                                                                         *)
(* One action is one external call of the pipeline together with the code  *)
(* that runs up to the next external call: the setup of a configuration    *)
(* (schema checks, option lookup, row query, template reference), the      *)
(* claim write, the template render, the recipient parsing, the send and   *)
(* the final status write.  An external call that fails leaves the row     *)
(* store as it was.                                                        *)
(*                                                                         *)
(* Spec is the Runner's for loop over loaded configurations, run after     *)
(* run.  Four more specifications stand beside it: SpecList calls          *)
(* comma_delimited_to_list on its own, SpecLoad is                         *)
(* get_active_configurations with the loop that consumes its result,       *)
(* SpecStart is the start of main() with authenticate (app/auth.py), and   *)
(* SpecOverlap is two runs of the pipeline at the same time.               *)
(***************************************************************************)
EXTENDS Integers, Sequences, FiniteSets, TLC

VARIABLES
    trigger,     \* row store: trigger[f][r], value of single-select field f of row r ("" is blank)
    recipient,   \* row store: recipient[r], value of the recipient field of row r
    configs,     \* active_configurations of main(), a sequence of configuration records
    run,         \* number of the current (non-overlapping) run of main()
    ci,          \* main(): index of the configuration of the for loop
    pc,          \* position inside process_emailer_config / main
    ids,         \* process_emailer_config: queued/inprogress/sent option ids resolved by setup
    queue,       \* process_emailer_config: queued_rows, the rows the query returned
    k,           \* process_emailer_config: index into queued_rows of the current row
    recipients,  \* process_emailer_config: the parsed recipient list of the current row
    steps,       \* history: steps[r], what was attempted on row r in the current call
    resp,        \* send_email: the mail API's answer to the send that has just returned
    tfetch,      \* create_email_message: what the template fetch of the step just taken gave
    atStart,     \* history: the trigger values in the store when the current call started
    sendCount,   \* history: sendCount[r], times row r was handed to send_email (all runs)
    results,     \* history: one record per process_emailer_config call of the current run
    argument,    \* comma_delimited_to_list: the argument of the call
    returned,    \* comma_delimited_to_list: <<>> before the call, then <<what it gave>>
    table,       \* the configuration table: whether it answers, and its rows
    mpc,         \* main(): its position before and in the for loop
    loaded,      \* main(): <<>> before get_active_configurations, then <<what it gave>>
    processed,   \* history: the configurations main() handed to process_emailer_config
    env,         \* main(): env[n], the value os.getenv gives for the name n
    apc,         \* authenticate: its position
    token_cache_file, \* authenticate: what the file token_cache.bin holds
    cache,       \* authenticate: what the token cache in memory holds
    result,      \* authenticate: the result of the last acquisition
    trace,       \* history: the calls authenticate made, with what they gave
    other,       \* a second run of main() that is suspended: its ci, pc, ..., results
    active       \* which of the two runs the pipeline variables belong to

\* the variables of the Runner and the pipeline
pipeline == <<trigger, recipient, configs, run, ci, pc, ids, queue, k, recipients,
              steps, resp, tfetch, atStart, sendCount, results>>

\* the variables of the functions that are called on their own
listing == <<argument, returned>>
loading == <<table, loaded, processed>>
authenticating == <<env, apc, token_cache_file, cache, result, trace>>
overlapping == <<other, active>>
apart == <<listing, loading, mpc, authenticating, overlapping>>

vars == <<pipeline, apart>>

(***************************************************************************)
(* Bounds of the model.                                                    *)
(***************************************************************************)
NumRows == 2
MaxConfigs == 2
MaxRuns == 2

Rows == 1..NumRows

(***************************************************************************)
(* Python values of a text field: a string (a sequence of characters),     *)
(* None, or a number (a field that is not text-typed).                     *)
(***************************************************************************)
StrV(s) == [kind |-> "str", chars |-> s, num |-> 0]
NoneV == [kind |-> "none", chars |-> <<>>, num |-> 0]
NumV(n) == [kind |-> "num", chars |-> <<>>, num |-> n]

\* Python truthiness of a value: `if input_string:`
Truthy(v) ==
    CASE v.kind = "str" -> v.chars # <<>>
      [] v.kind = "none" -> FALSE
      [] OTHER -> v.num # 0

(***************************************************************************)
(* comma_delimited_to_list (emailer.py 285-306) with str.split(",") and    *)
(* str.strip() computed on sequences of characters.                        *)
(***************************************************************************)
HasComma(s) == \E i \in 1..Len(s) : s[i] = ","

FirstComma(s) == CHOOSE i \in 1..Len(s) : s[i] = "," /\ \A j \in 1..(i - 1) : s[j] # ","

RECURSIVE Split(_)
\* str.split(","): the pieces between the commas, empty pieces kept
Split(s) ==
    IF ~HasComma(s) THEN <<s>>
    ELSE <<SubSeq(s, 1, FirstComma(s) - 1)>> \o Split(SubSeq(s, FirstComma(s) + 1, Len(s)))

RECURSIVE LStrip(_)
LStrip(s) == IF s # <<>> /\ Head(s) = " " THEN LStrip(Tail(s)) ELSE s

RECURSIVE RStrip(_)
RStrip(s) == IF s # <<>> /\ s[Len(s)] = " " THEN RStrip(SubSeq(s, 1, Len(s) - 1)) ELSE s

\* faulty variant of Strip: only the leading blanks go
Strip_left(s) == LStrip(s)

\* str.strip()
Strip(s) == RStrip(LStrip(s))

\* [raised, list]: a falsy value gives [], a string its stripped pieces, and a truthy
\* value that is no string has no split() (AttributeError).
comma_delimited_to_list(input_string) ==
    IF ~Truthy(input_string) THEN [raised |-> FALSE, list |-> <<>>]
    ELSE IF input_string.kind # "str" THEN [raised |-> TRUE, list |-> <<>>]
    ELSE [raised |-> FALSE,
          list |-> [i \in 1..Len(Split(input_string.chars)) |->
                        Strip(Split(input_string.chars)[i])]]

(***************************************************************************)
(* The source table's schema: field_names, fields[f].TYPE and              *)
(* fields[f].options_details.  Status has the three canonical options;     *)
(* Stage has no "Sent", Phase no "In Progress", Step spells "queued" in    *)
(* lower case.                                                             *)
(***************************************************************************)
SelectFields == {"Status", "Stage", "Phase", "Step"}

field_names == SelectFields \cup {"Email", "Name", "Notes"}

FieldType(f) == IF f \in SelectFields THEN "single_select" ELSE "text"

options_details(f) ==
    CASE f = "Status" -> << [id |-> "1", value |-> "Queued"],
                            [id |-> "2", value |-> "In Progress"],
                            [id |-> "3", value |-> "Sent"],
                            [id |-> "4", value |-> "Hold"] >>
      [] f = "Stage"  -> << [id |-> "11", value |-> "Queued"],
                            [id |-> "12", value |-> "In Progress"],
                            [id |-> "13", value |-> "Done"] >>
      [] f = "Phase"  -> << [id |-> "21", value |-> "Queued"],
                            [id |-> "22", value |-> "Pending"],
                            [id |-> "23", value |-> "Sent"] >>
      [] f = "Step"   -> << [id |-> "31", value |-> "queued"],
                            [id |-> "32", value |-> "In Progress"],
                            [id |-> "33", value |-> "Sent"] >>
      [] OTHER -> << >>

Labels == {"Queued", "In Progress", "Sent"}

\* get_option_id (emailer.py 460-483): the dict built from the options keeps the last
\* option of each value; a missing option or a falsy id raises ValueError.
get_option_id(options, option_value) ==
    LET matching == {i \in 1..Len(options) : options[i].value = option_value}
        last == CHOOSE i \in matching : \A j \in matching : j <= i
    IN  IF matching = {} \/ options[last].id = ""
        THEN [raised |-> TRUE, id |-> ""]
        ELSE [raised |-> FALSE, id |-> options[last].id]

(***************************************************************************)
(* send_email (send_email.py 5-81).  response is what requests.post gave:  *)
(* an HTTP status code, or a connection error.                             *)
(***************************************************************************)
Accepted == 202

HttpResponse(code) == [kind |-> "http", code |-> code]
ConnectionError == [kind |-> "error", code |-> 0]
NoResponse == [kind |-> "none", code |-> 0]

\* requests.Response.raise_for_status(): HTTPError for a 4xx or 5xx status only
raise_for_status(code) == code >= 400 /\ code < 600

\* send_email.py 68-81: whether the call raises, given the answer of requests.post
post_raises(response) ==
    IF response.kind = "error" THEN TRUE
    ELSE IF response.code = Accepted THEN FALSE
    ELSE raise_for_status(response.code)

\* send_email.py 64-66: subject[:50] in the log line raises TypeError for a subject
\* that is no string, before anything is posted
log_raises(subject) == subject.kind # "str"

\* send_email: [posted, raised]
send_email(subject, response) ==
    IF log_raises(subject) THEN [posted |-> FALSE, raised |-> TRUE]
    ELSE [posted |-> TRUE, raised |-> post_raises(response)]

(***************************************************************************)
(* create_email_message (emailer.py 309-384).  answer is what the template *)
(* URL gave: the answer of requests.get and, when there is a body, whether *)
(* the body is a template that parses and renders.                         *)
(***************************************************************************)
TemplateAnswer(response, template) == [response |-> response, template |-> template]
NoAnswer == TemplateAnswer(NoResponse, "none")

\* faulty variant of fetch_raises: the status of the answer is not looked at
fetch_raises_unchecked(response) == response.kind = "error"

\* emailer.py 345-346: requests.get raises RequestException, or raise_for_status raises
fetch_raises(response) ==
    response.kind = "error" \/ raise_for_status(response.code)

\* emailer.py 342-384: whether the call raises; every except clause raises again
create_email_message(answer) ==
    \/ fetch_raises(answer.response)
    \/ answer.template = "syntax_error"
    \/ answer.template = "render_error"

(***************************************************************************)
(* Configurations, as get_active_configurations hands them to main().      *)
(***************************************************************************)
NoSubject == StrV(<<"N", "o", " ", "S", "u", "b", "j", "e", "c", "t">>)
AbsentV == [kind |-> "absent", chars |-> <<>>, num |-> 0]

\* emailer.py 213: configuration.get("Subject", "No Subject")
Subject(configuration) ==
    IF configuration.subject.kind = "absent" THEN NoSubject ELSE configuration.subject

\* emailer.py 116-120: include_fields
include_fields(configuration) ==
    <<configuration.trigger_field, configuration.recipient_field>>
        \o configuration.template_fields

\* faulty variant of Eligible: the empty filter is added whatever trigger_on_blank says
Eligible_blank_always(value, queued_option_id, trigger_on_blank) ==
    value = queued_option_id \/ value = ""

\* faulty variant of Eligible: the filters are lost and the query returns every row
Eligible_unfiltered(value, queued_option_id, trigger_on_blank) == TRUE

\* emailer.py 171-184: the OR of the single_select_equal filter and, with
\* trigger_on_blank, the empty filter
Eligible(value, queued_option_id, trigger_on_blank) ==
    value = queued_option_id \/ (trigger_on_blank /\ value = "")

(***************************************************************************)
(* process_emailer_config, the setup (emailer.py 105-168) up to the row    *)
(* query: "return" is an early return, "raise" an exception that leaves    *)
(* the function through lines 236-240, "query" means the three option ids  *)
(* are resolved and the rows are fetched next.                             *)
(***************************************************************************)
NoIds == [queued |-> "", inprogress |-> "", sent |-> ""]

\* faulty variant of Validate: the "Sent" option is looked up but a missing one is not an error
Validate_sent_unchecked(configuration) ==
    LET inc == include_fields(configuration)
        tf == configuration.trigger_field
        q == get_option_id(options_details(tf), "Queued")
        p == get_option_id(options_details(tf), "In Progress")
        s == get_option_id(options_details(tf), "Sent")
    IN  IF \E i \in 1..Len(inc) : inc[i] \notin field_names
            THEN [kind |-> "return", ids |-> NoIds]
        ELSE IF FieldType(tf) # "single_select"
            THEN [kind |-> "return", ids |-> NoIds]
        ELSE IF q.raised THEN [kind |-> "raise", ids |-> NoIds]
        ELSE IF p.raised THEN [kind |-> "raise", ids |-> NoIds]
        ELSE [kind |-> "query", ids |-> [queued |-> q.id, inprogress |-> p.id, sent |-> s.id]]

Validate(configuration) ==
    LET inc == include_fields(configuration)
        tf == configuration.trigger_field
        q == get_option_id(options_details(tf), "Queued")
        p == get_option_id(options_details(tf), "In Progress")
        s == get_option_id(options_details(tf), "Sent")
    IN  IF \E i \in 1..Len(inc) : inc[i] \notin field_names
            THEN [kind |-> "return", ids |-> NoIds]
        ELSE IF FieldType(tf) # "single_select"
            THEN [kind |-> "return", ids |-> NoIds]
        ELSE IF q.raised THEN [kind |-> "raise", ids |-> NoIds]
        ELSE IF q.id = "" THEN [kind |-> "return", ids |-> NoIds]
        ELSE IF p.raised THEN [kind |-> "raise", ids |-> NoIds]
        ELSE IF p.id = "" THEN [kind |-> "return", ids |-> NoIds]
        ELSE IF s.raised THEN [kind |-> "raise", ids |-> NoIds]
        ELSE IF s.id = "" THEN [kind |-> "return", ids |-> NoIds]
        ELSE [kind |-> "query", ids |-> [queued |-> q.id, inprogress |-> p.id, sent |-> s.id]]

\* source_table.get_rows (emailer.py 182-184): the rows matching the filter, by row id
AllRows == [r \in Rows |-> r]

get_rows(store, configuration, queued_option_id) ==
    LET Match(r) == Eligible(store[configuration.trigger_field][r], queued_option_id,
                             configuration.trigger_on_blank)
    IN  SelectSeq(AllRows, Match)

(***************************************************************************)
(* The inputs: the answers of the mail API, the configurations of the      *)
(* configuration table and the rows of the source table.                   *)
(***************************************************************************)
Responses == {HttpResponse(Accepted), HttpResponse(200), HttpResponse(404), ConnectionError}

\* what the template URL gives: a template, a body that is none, or no body at all
TemplateAnswers ==
    { TemplateAnswer(HttpResponse(200), "valid"),
      TemplateAnswer(HttpResponse(200), "syntax_error"),
      TemplateAnswer(HttpResponse(200), "render_error"),
      TemplateAnswer(HttpResponse(404), "error_page"),
      TemplateAnswer(ConnectionError, "none") }

Good ==
    [trigger_field |-> "Status", trigger_on_blank |-> TRUE, recipient_field |-> "Email",
     template_fields |-> <<"Name">>, template_url |-> StrV(<<"u">>),
     subject |-> StrV(<<"H", "i">>)]

ConfigPool ==
    { Good,
      [Good EXCEPT !.trigger_on_blank = FALSE],
      [Good EXCEPT !.subject = NoneV],
      [Good EXCEPT !.template_url = NoneV],
      [Good EXCEPT !.template_fields = <<"Nope">>],
      [Good EXCEPT !.trigger_field = "Notes"],
      [Good EXCEPT !.trigger_field = "Stage"],
      [Good EXCEPT !.trigger_field = "Phase"],
      [Good EXCEPT !.trigger_field = "Step"] }

ConfigLists == UNION {[1..n -> ConfigPool] : n \in 0..MaxConfigs}

\* the values a row's recipient field can hold
RecipientPool ==
    { StrV(<<"a">>), StrV(<<" ">>), StrV(<<"a", ",", " ", "b">>), NoneV, NumV(7) }

\* the rows a source table starts with: a Queued ("1") row with any recipient value,
\* blank rows, and rows already In Progress ("2"), Sent ("3") or on Hold ("4")
RowPool ==
    {[status |-> "1", to |-> v] : v \in RecipientPool}
        \cup {[status |-> "", to |-> StrV(<<"a">>)], [status |-> "", to |-> StrV(<<" ">>)],
              [status |-> "2", to |-> StrV(<<"a">>)], [status |-> "3", to |-> StrV(<<"a">>)],
              [status |-> "4", to |-> StrV(<<"a">>)]}

\* the rows of the fields whose options are incomplete all start at the first option
FirstOption(f) == options_details(f)[1].id

\* main.py 17-22: the names of the six environment values
EnvNames == {"CLIENT_ID", "TENANT_ID", "BASEROW_URL", "BASEROW_API_TOKEN",
             "CONFIG_TABLE_ID", "ERROR_TABLE_ID"}

\* comma_delimited_to_list is not called on its own
ListIdle ==
    /\ argument = NoneV
    /\ returned = <<>>

\* get_active_configurations is not called: an empty table, nothing loaded
LoadIdle ==
    /\ table = [reachable |-> TRUE, rows |-> <<>>]
    /\ loaded = <<>>
    /\ processed = <<>>

\* authenticate is not called
AuthIdle ==
    /\ env = [n \in EnvNames |-> NoneV]
    /\ apc = "idle"
    /\ token_cache_file = "none"
    /\ cache = "empty"
    /\ result = "none"
    /\ trace = <<>>

\* what a run of main() holds when it has nothing left to do
Ended ==
    [ci |-> 1, pc |-> "done", ids |-> NoIds, queue |-> <<>>, k |-> 0, recipients |-> <<>>,
     steps |-> [r \in Rows |-> <<>>], resp |-> NoResponse, tfetch |-> NoAnswer,
     atStart |-> [f \in SelectFields |-> [r \in Rows |-> ""]], results |-> <<>>]

\* there is no second run
OverlapIdle ==
    /\ other = Ended
    /\ active = 1

\* nothing is called on its own and no second run is there
ApartIdle ==
    /\ ListIdle
    /\ LoadIdle
    /\ AuthIdle
    /\ OverlapIdle
    /\ mpc = "idle"

Init ==
    /\ \E rows \in [Rows -> RowPool] :
         /\ trigger = [f \in SelectFields |->
                          [r \in Rows |-> IF f = "Status" THEN rows[r].status
                                          ELSE FirstOption(f)]]
         /\ recipient = [r \in Rows |-> rows[r].to]
    /\ configs \in ConfigLists
    /\ run = 1
    /\ ci = 1
    /\ pc = IF Len(configs) = 0 THEN "done" ELSE "setup"
    /\ ids = NoIds
    /\ queue = <<>>
    /\ k = 0
    /\ recipients = <<>>
    /\ steps = [r \in Rows |-> <<>>]
    /\ resp = NoResponse
    /\ tfetch = NoAnswer
    /\ atStart = trigger
    /\ sendCount = [r \in Rows |-> 0]
    /\ results = <<>>
    /\ ApartIdle

(***************************************************************************)
(* The per-row transition (emailer.py 195-234): the value each write       *)
(* sends, and where control goes after each step.  "continue" is the       *)
(* continue statement (or the end of the loop body), "raise" an exception  *)
(* that no try of the loop body encloses.                                  *)
(***************************************************************************)
\* faulty variants of claim_value: the claim write sends the Queued id, or the Sent id
claim_value_queued(option_ids) == option_ids.queued

claim_value_sent(option_ids) == option_ids.sent

\* emailer.py 199: row.update({trigger_field: inprogress_option_id})
claim_value(option_ids) == option_ids.inprogress

\* faulty variant of claim_write: the update goes through only while the row still holds
\* the value it was fetched with
claim_write_checked(current, fetched, option_ids) ==
    IF current = fetched THEN claim_value(option_ids) ELSE current

\* emailer.py 197-199: what the row holds after a claim write that succeeded; the
\* update is sent whatever the row holds now
claim_write(current, fetched, option_ids) == claim_value(option_ids)

\* faulty variant of final_value: the final write sends the Queued id
final_value_queued(option_ids) == option_ids.queued

\* emailer.py 230: row.update({trigger_field: sent_option_id})
final_value(option_ids) == option_ids.sent

\* faulty variant of after_claim: a failed claim write is logged and the row processed all the same
after_claim_ignored(ok) == "render"

\* emailer.py 198-203
after_claim(ok) == IF ok THEN "render" ELSE "continue"

\* faulty variant of after_render: a failed render is logged and the row processed all the same
after_render_ignored(ok) == "recipients"

\* emailer.py 206-210
after_render(ok) == IF ok THEN "recipients" ELSE "continue"

\* emailer.py 213-218: the parsing is inside no try
after_recipients(parsed) ==
    IF parsed.raised THEN "raise"
    ELSE IF parsed.list = <<>> THEN "continue"
    ELSE "send"

\* emailer.py 221-226
after_send(raised) == IF raised THEN "continue" ELSE "final"

\* emailer.py 229-234
after_final(ok) == "continue"

\* faulty variant of RunnerNext: an exception of process_emailer_config ends the for loop
RunnerNext_uncaught(i, outcome) == IF outcome = "raise" THEN Len(configs) + 1 ELSE i + 1

\* main.py 38-43: the for loop goes on to the next configuration whether the call
\* returned or raised
RunnerNext(i, outcome) == i + 1

\* The call of process_emailer_config for configuration ci ends (it returns early,
\* completes its loop or raises) and main() takes the next configuration.
Leave(outcome, query_failed) ==
    /\ results' = Append(results, [cfg |-> ci, outcome |-> outcome, at |-> pc,
                                   query_failed |-> query_failed,
                                   touched |-> {r \in Rows : steps'[r] # <<>>},
                                   fetched |-> {queue[i] : i \in 1..Len(queue)}])
    /\ ci' = RunnerNext(ci, outcome)
    /\ pc' = IF ci' > Len(configs) THEN "done" ELSE "setup"
    /\ queue' = <<>>
    /\ k' = 0

\* Control leaves a step of the loop body towards `target`.
Goto(target) ==
    CASE target = "continue" ->
            IF k < Len(queue)
            THEN /\ k' = k + 1
                 /\ pc' = "claim"
                 /\ UNCHANGED <<ci, results, queue>>
            ELSE Leave("completed", FALSE)
      [] target = "raise" -> Leave("raise", FALSE)
      [] OTHER -> /\ pc' = target
                  /\ UNCHANGED <<ci, results, queue, k>>

\* faulty variant of CurrentRow: the fetched rows are taken last first
CurrentRow_reversed == queue[Len(queue) + 1 - k]

\* emailer.py 195: `for row in queued_rows`, the row of the current iteration
CurrentRow == queue[k]

Note(r, event) == steps' = [steps EXCEPT ![r] = Append(@, event)]

(***************************************************************************)
(* Actions.                                                                *)
(***************************************************************************)
\* emailer.py 105-192: schema checks, option ids, row query, template reference
Setup ==
    /\ pc = "setup"
    /\ LET configuration == configs[ci]
           v == Validate(configuration)
       IN  /\ steps' = [r \in Rows |-> <<>>]
           /\ resp' = NoResponse
           /\ tfetch' = NoAnswer
           /\ atStart' = trigger
           /\ ids' = v.ids
           /\ recipients' = <<>>
           /\ \/ /\ v.kind # "query"
                 /\ Leave(v.kind, FALSE)
              \/ /\ v.kind = "query"
                 /\ Leave("raise", TRUE)
              \/ /\ v.kind = "query"
                 /\ LET rows == get_rows(trigger, configuration, v.ids.queued)
                    IN  IF ~Truthy(configuration.template_url)
                            THEN Leave("return", FALSE)
                        ELSE IF rows = <<>>
                            THEN Leave("completed", FALSE)
                        ELSE /\ queue' = rows
                             /\ k' = 1
                             /\ pc' = "claim"
                             /\ UNCHANGED <<ci, results>>
    /\ UNCHANGED <<trigger, recipient, configs, run, sendCount>>
    /\ UNCHANGED apart

\* emailer.py 197-203: the claim write
Claim ==
    /\ pc = "claim"
    /\ LET r == CurrentRow
           f == configs[ci].trigger_field
       IN  \E ok \in BOOLEAN :
             /\ trigger' = IF ok THEN [trigger EXCEPT ![f][r] =
                                                  claim_write(@, atStart[f][r], ids)]
                           ELSE trigger
             /\ Note(r, IF ok THEN "claim_ok" ELSE "claim_fail")
             /\ Goto(after_claim(ok))
    /\ tfetch' = NoAnswer
    /\ UNCHANGED <<recipient, configs, run, ids, recipients, resp, atStart,
                   sendCount>>
    /\ UNCHANGED apart

\* emailer.py 205-210: create_email_message fetches, validates and renders the template
Render ==
    /\ pc = "render"
    /\ \E answer \in TemplateAnswers :
         LET ok == ~create_email_message(answer)
         IN  /\ tfetch' = answer
             /\ Note(CurrentRow, IF ok THEN "render_ok" ELSE "render_fail")
             /\ Goto(after_render(ok))
    /\ UNCHANGED <<trigger, recipient, configs, run, ids, recipients, resp, atStart,
                   sendCount>>
    /\ UNCHANGED apart

\* emailer.py 212-218: subject, recipients
ParseRecipients ==
    /\ pc = "recipients"
    /\ LET r == CurrentRow
           parsed == comma_delimited_to_list(recipient[r])
       IN  /\ recipients' = parsed.list
           /\ Note(r, CASE parsed.raised -> "recipients_raise"
                        [] parsed.list = <<>> /\ ~parsed.raised -> "recipients_empty"
                        [] OTHER -> "recipients_ok")
           /\ Goto(after_recipients(parsed))
    /\ tfetch' = NoAnswer
    /\ UNCHANGED <<trigger, recipient, configs, run, ids, resp, atStart,
                   sendCount>>
    /\ UNCHANGED apart

\* emailer.py 220-226: send_email
Send ==
    /\ pc = "send"
    /\ LET r == CurrentRow
           subject == Subject(configs[ci])
       IN  \E response \in Responses :
             LET sent == send_email(subject, response)
             IN  /\ sendCount' = [sendCount EXCEPT ![r] = @ + 1]
                 /\ resp' = IF sent.raised THEN NoResponse ELSE response
                 /\ Note(r, IF sent.raised THEN "send_fail" ELSE "send_ok")
                 /\ Goto(after_send(sent.raised))
    /\ UNCHANGED <<trigger, recipient, configs, run, ids, recipients, tfetch, atStart>>
    /\ UNCHANGED apart

\* emailer.py 228-234: the final status write
Final ==
    /\ pc = "final"
    /\ LET r == CurrentRow
           f == configs[ci].trigger_field
       IN  \E ok \in BOOLEAN :
             /\ trigger' = IF ok THEN [trigger EXCEPT ![f][r] = final_value(ids)]
                           ELSE trigger
             /\ Note(r, IF ok THEN "sent_ok" ELSE "sent_fail")
             /\ Goto(after_final(ok))
    /\ resp' = NoResponse
    /\ UNCHANGED <<recipient, configs, run, ids, recipients, tfetch, atStart, sendCount>>
    /\ UNCHANGED apart

\* main() is started again after the previous run has ended (non-overlapping runs)
NewRun ==
    /\ pc = "done"
    /\ run < MaxRuns
    /\ run' = run + 1
    /\ ci' = 1
    /\ pc' = IF Len(configs) = 0 THEN "done" ELSE "setup"
    /\ results' = <<>>
    /\ tfetch' = NoAnswer
    /\ UNCHANGED <<trigger, recipient, configs, ids, queue, k, recipients, steps, resp,
                   atStart, sendCount>>
    /\ UNCHANGED apart

Next == Setup \/ Claim \/ Render \/ ParseRecipients \/ Send \/ Final \/ NewRun

Spec == Init /\ [][Next]_vars

(***************************************************************************)
(* What the claims speak of.                                               *)
(***************************************************************************)
Range(seq) == {seq[i] : i \in 1..Len(seq)}

HasOption(f, label) == \E i \in 1..Len(options_details(f)) : options_details(f)[i].value = label

\* the identifier of the option of field f labelled `label`
OptionId(f, label) ==
    options_details(f)[CHOOSE i \in 1..Len(options_details(f)) :
                           options_details(f)[i].value = label].id

\* the fields that have the three canonical options
CompleteFields == {f \in SelectFields : \A l \in Labels : HasOption(f, l)}

\* a call of process_emailer_config has just ended; Last describes it, and steps,
\* atStart and the store are as it left them
CallEnded == pc \in {"setup", "done"} /\ results # <<>>

Last == results[Len(results)]

LastConfig == configs[Last.cfg]

\* the call got past its setup: it reached the loop over the fetched rows
PassedSetup(res) == res.at # "setup"

\* row r was Queued, or blank with triggerOnBlank, when the call started
EligibleAtStart(r, configuration) ==
    LET f == configuration.trigger_field
    IN  \/ atStart[f][r] = OptionId(f, "Queued")
        \/ configuration.trigger_on_blank /\ atStart[f][r] = ""

InProgressOrSent(f, r) ==
    trigger[f][r] \in {OptionId(f, "In Progress"), OptionId(f, "Sent")}

\* C1 as stated: after a pipeline run of a configuration that passed setup, every row
\* that was Queued (or blank with triggerOnBlank) at its start is In Progress or Sent,
\* whatever per-row step failed.
C1_EndsInProgressOrSent ==
    (CallEnded /\ PassedSetup(Last)) =>
        \A r \in Rows :
            EligibleAtStart(r, LastConfig) => InProgressOrSent(LastConfig.trigger_field, r)

\* C1 amended: after a pipeline run of a configuration that passed setup, every row
\* that was eligible at its start is In Progress or Sent if its claim write succeeded,
\* and otherwise (claim write failed or never attempted) still has its original value.
C1_EndsInProgressOrSentIfClaimed ==
    (CallEnded /\ PassedSetup(Last)) =>
        \A r \in Rows :
            EligibleAtStart(r, LastConfig) =>
                IF "claim_ok" \in Range(steps[r])
                THEN InProgressOrSent(LastConfig.trigger_field, r)
                ELSE trigger[LastConfig.trigger_field][r] = atStart[LastConfig.trigger_field][r]

\* a run that left one eligible row Sent and another, whose claim write failed, as it was
C1_Witness ==
    /\ CallEnded
    /\ PassedSetup(Last)
    /\ \E r1, r2 \in Rows :
         /\ EligibleAtStart(r1, LastConfig)
         /\ EligibleAtStart(r2, LastConfig)
         /\ "sent_ok" \in Range(steps[r1])
         /\ trigger[LastConfig.trigger_field][r1] = OptionId(LastConfig.trigger_field, "Sent")
         /\ steps[r2] = <<"claim_fail">>
         /\ trigger[LastConfig.trigger_field][r2] = atStart[LastConfig.trigger_field][r2]

\* C2: a trigger field becomes Sent only from In Progress, written by the claim of the
\* same call; a row claimed in this call is never written back to Queued or blank; and
\* a render, recipient or send failure leaves the row at In Progress.
C2_ClaimBeforeSent ==
    [][\A f \in CompleteFields : \A r \in Rows :
          /\ (trigger'[f][r] = OptionId(f, "Sent") /\ trigger[f][r] # OptionId(f, "Sent"))
                => (trigger[f][r] = OptionId(f, "In Progress") /\ "claim_ok" \in Range(steps[r]))
          /\ ("claim_ok" \in Range(steps[r]) /\ steps'[r] # <<>>)
                => trigger'[f][r] \notin {OptionId(f, "Queued"), ""}
          /\ (/\ Len(steps'[r]) = Len(steps[r]) + 1
              /\ f = configs[ci].trigger_field
              /\ steps'[r][Len(steps'[r])] \in
                     {"render_fail", "recipients_empty", "recipients_raise", "send_fail"})
                => trigger'[f][r] = OptionId(f, "In Progress")]_vars

\* one claimed row went on to Sent, another stayed In Progress after its send failed
C2_Witness ==
    \E r1, r2 \in Rows :
        /\ steps[r1] = <<"claim_ok", "render_ok", "recipients_ok", "send_ok", "sent_ok">>
        /\ trigger["Status"][r1] = OptionId("Status", "Sent")
        /\ steps[r2] = <<"claim_ok", "render_ok", "recipients_ok", "send_fail">>
        /\ trigger["Status"][r2] = OptionId("Status", "In Progress")
        /\ atStart["Status"][r2] = OptionId("Status", "Queued")

\* C3: over all runs and all configurations sharing the source table and trigger field,
\* a row is handed to the Mail Sender at most once, and a row that was In Progress or
\* Sent when a call started is not among the rows that call fetched.
C3_NoDoubleSend ==
    /\ \A r \in Rows : sendCount[r] <= 1
    /\ \A i \in 1..Len(queue) :
         \A f \in CompleteFields :
             configs[ci].trigger_field = f =>
                 atStart[f][queue[i]] \notin {OptionId(f, "In Progress"), OptionId(f, "Sent")}

\* the second run has ended and a row emailed in an earlier call, left at In Progress,
\* was not emailed again, although two configurations share its table and trigger field
C3_Witness ==
    /\ run = MaxRuns
    /\ pc = "done"
    /\ Len(results) >= 2
    /\ \A i \in 1..Len(results) :
         configs[i].trigger_field = "Status" /\ results[i].outcome = "completed"
    /\ \E r \in Rows :
         /\ sendCount[r] = 1
         /\ steps[r] = <<>>
         /\ trigger["Status"][r] = OptionId("Status", "In Progress")

\* the rows of the current call, in the loop: the row being processed
InLoop == pc \in {"claim", "render", "recipients", "send", "final"}

\* C4 as stated: no failure of a per-row step makes process_emailer_config raise (it
\* raises in its setup only), and when the call has ended the claim write of every row
\* it fetched has been attempted.
C4_RowIsolation ==
    /\ \A i \in 1..Len(results) : results[i].outcome = "raise" => results[i].at = "setup"
    /\ (CallEnded /\ PassedSetup(Last)) =>
           \A r \in Rows : EligibleAtStart(r, LastConfig) => steps[r] # <<>>

\* C5: the Runner calls process_emailer_config once for every loaded configuration, in
\* list order, whether the earlier calls completed, returned early or raised.
C5_EveryConfigurationInvoked ==
    /\ \A i \in 1..Len(results) : results[i].cfg = i
    /\ Len(results) <= Len(configs)
    /\ pc = "done" => Len(results) = Len(configs)
    /\ pc # "done" => ci = Len(results) + 1

\* the run has ended, the first configuration's call raised and the second one's ran
C5_Witness ==
    /\ pc = "done"
    /\ Len(configs) = MaxConfigs
    /\ results[1].outcome = "raise"
    /\ results[Len(results)].cfg = Len(configs)
    /\ results[Len(results)].touched # {}

\* a configuration fails a setup check on this schema
Defective(configuration) ==
    \/ \E i \in 1..Len(include_fields(configuration)) :
           include_fields(configuration)[i] \notin field_names
    \/ FieldType(configuration.trigger_field) # "single_select"
    \/ \E l \in Labels : ~HasOption(configuration.trigger_field, l)
    \/ configuration.template_url.kind # "str"
    \/ configuration.template_url.chars = <<>>

\* C6: a call whose configuration fails a setup check, or whose row query fails,
\* attempts no write and no send and leaves the store as it was; and while rows are
\* processed the three option ids are the ones of "Queued", "In Progress" and "Sent".
C6_AllOrNothingSetup ==
    /\ \A i \in 1..Len(results) :
         (Defective(configs[results[i].cfg]) \/ results[i].query_failed)
            => results[i].touched = {}
    /\ (CallEnded /\ (Defective(LastConfig) \/ Last.query_failed))
            => (trigger = atStart /\ \A r \in Rows : steps[r] = <<>>)
    /\ InLoop =>
          /\ ~Defective(configs[ci])
          /\ ids = [queued |-> OptionId(configs[ci].trigger_field, "Queued"),
                    inprogress |-> OptionId(configs[ci].trigger_field, "In Progress"),
                    sent |-> OptionId(configs[ci].trigger_field, "Sent")]

\* a call for a trigger field without a "Sent" option has ended, the field is Queued on
\* every row, and nothing was written
C6_Witness ==
    /\ CallEnded
    /\ ~HasOption(LastConfig.trigger_field, "Sent")
    /\ HasOption(LastConfig.trigger_field, "Queued")
    /\ \A r \in Rows : trigger[LastConfig.trigger_field][r]
                          = OptionId(LastConfig.trigger_field, "Queued")
    /\ Last.touched = {}

ClaimedRenderedParsed == <<"claim_ok", "render_ok", "recipients_ok">>

IsPrefix(a, b) == Len(a) <= Len(b) /\ SubSeq(b, 1, Len(a)) = a

\* C7: send_email is invoked for a row only after its claim write succeeded, its
\* message was rendered and its recipient list was found non-empty, in this order; the
\* Sent write is attempted only after send_email returned without raising for the row.
C7_SendAfterClaimRenderRecipients ==
    /\ \A r \in Rows :
         /\ (\E e \in Range(steps[r]) : e \in {"send_ok", "send_fail"})
               => (Len(steps[r]) >= 4 /\ IsPrefix(ClaimedRenderedParsed, steps[r]))
         /\ (\E e \in Range(steps[r]) : e \in {"sent_ok", "sent_fail"})
               => (Len(steps[r]) = 5 /\ steps[r][4] = "send_ok"
                   /\ IsPrefix(ClaimedRenderedParsed, steps[r]))
    /\ pc = "send" =>
          /\ steps[queue[k]] = ClaimedRenderedParsed
          /\ recipients # <<>>
          /\ trigger[configs[ci].trigger_field][queue[k]] = ids.inprogress
    /\ pc = "final" => steps[queue[k]] = ClaimedRenderedParsed \o <<"send_ok">>

\* a row whose Sent write was made, after its four earlier steps succeeded in order
C7_Witness ==
    \E r \in Rows :
        /\ steps[r] = ClaimedRenderedParsed \o <<"send_ok", "sent_ok">>
        /\ sendCount[r] = 1
        /\ trigger["Status"][r] = OptionId("Status", "Sent")

\* C8 as stated: send_email returns without raising only when the mail API answered
\* 202, so the Sent write is attempted only for a row whose message was accepted.
C8_SuccessOnlyWhenAccepted ==
    pc = "final" => resp = HttpResponse(Accepted)

\* C9 as stated: the recipient list handed to send_email holds no empty address, and a
\* row whose recipient value is blank, only whitespace or only commas (every entry
\* empty once trimmed) is not handed to send_email and stays In Progress.
C9_NoEmptyRecipient ==
    /\ pc = "send" => \A i \in 1..Len(recipients) : recipients[i] # <<>>
    /\ \A r \in Rows :
         (/\ \E e \in Range(steps[r]) : e \in {"send_ok", "send_fail"}
          /\ recipient[r].kind = "str")
            => \E i \in 1..Len(recipient[r].chars) : recipient[r].chars[i] \notin {" ", ","}

TemplateFailed(answer) ==
    \/ answer.response \in {ConnectionError, HttpResponse(404)}
    \/ answer.template \in {"syntax_error", "render_error"}

\* C11: when the template fetch or render of a row raises, the row has been claimed and
\* nothing else: its trigger field is In Progress, it is not handed to the Mail Sender,
\* no Sent write is made, and the failing step hands over to the claim of the next
\* fetched row, or ends the call normally when the row was the last (no exception
\* leaves the pipeline).
C11_RenderFailureSafe ==
    /\ [](\A r \in Rows :
            "render_fail" \in Range(steps[r]) =>
                /\ steps[r] = <<"claim_ok", "render_fail">>
                /\ sendCount[r] = 0
                /\ \E f \in CompleteFields :
                      /\ trigger[f][r] = OptionId(f, "In Progress")
                      /\ \A g \in SelectFields \ {f} : trigger[g][r] = atStart[g][r])
    /\ [][(tfetch' # NoAnswer /\ TemplateFailed(tfetch')) =>
            /\ steps' = [steps EXCEPT ![queue[k]] = <<"claim_ok", "render_fail">>]
            /\ trigger' = trigger
            /\ sendCount' = sendCount
            /\ resp' = NoResponse
            /\ IF k < Len(queue)
               THEN pc' = "claim" /\ queue' = queue /\ k' = k + 1 /\ ci' = ci
               ELSE /\ Len(results') = Len(results) + 1
                    /\ results'[Len(results')].outcome = "completed"]_vars

\* the template URL answered 404 for the first fetched row, which stays In Progress and
\* unsent, and the claim of the second fetched row is next
C11_Witness ==
    /\ pc = "claim"
    /\ k = 2
    /\ tfetch.response = HttpResponse(404)
    /\ steps[queue[1]] = <<"claim_ok", "render_fail">>
    /\ trigger[configs[ci].trigger_field][queue[1]] = ids.inprogress
    /\ sendCount[queue[1]] = 0

\* the rows process_emailer_config has touched in the current call
Touched == {r \in Rows : steps[r] # <<>>}

\* C12: the rows a pipeline run fetches, and so claims, are exactly the rows whose
\* trigger was the Queued identifier at query time, or blank when triggerOnBlank is true;
\* every other row (blank without triggerOnBlank, In Progress, Sent, any other option) has
\* no step attempted on it and keeps all its values.
C12_ExactlyEligible ==
    /\ InLoop =>
          /\ Range(queue) = {r \in Rows : EligibleAtStart(r, configs[ci])}
          /\ Touched \subseteq Range(queue)
          /\ \A r \in Rows \ Range(queue) :
                \A f \in SelectFields : trigger[f][r] = atStart[f][r]
    /\ (CallEnded /\ PassedSetup(Last)) =>
          /\ Touched \subseteq {r \in Rows : EligibleAtStart(r, LastConfig)}
          /\ \A r \in Rows :
                ~EligibleAtStart(r, LastConfig) =>
                    \A f \in SelectFields : trigger[f][r] = atStart[f][r]
    /\ (CallEnded /\ ~PassedSetup(Last)) =>
          /\ Touched = {}
          /\ trigger = atStart
    /\ (CallEnded /\ Last.outcome = "completed") =>
          Touched = {r \in Rows : EligibleAtStart(r, LastConfig)}

\* a call without triggerOnBlank has ended: the blank row is untouched and still blank,
\* the Queued row was claimed and sent
C12_Witness ==
    /\ CallEnded
    /\ ~LastConfig.trigger_on_blank
    /\ \E r1, r2 \in Rows :
          /\ atStart[LastConfig.trigger_field][r1] = ""
          /\ steps[r1] = <<>>
          /\ trigger[LastConfig.trigger_field][r1] = ""
          /\ atStart[LastConfig.trigger_field][r2] = OptionId(LastConfig.trigger_field, "Queued")
          /\ "send_ok" \in Range(steps[r2])

\* the events that record an attempt of each external call of the loop body
ClaimEvents == {"claim_ok", "claim_fail"}
FetchEvents == {"render_ok", "render_fail"}
SendEvents == {"send_ok", "send_fail"}
SentEvents == {"sent_ok", "sent_fail"}

\* how often a call of the given kind was attempted on row r in the current call
Attempts(r, events) == Cardinality({i \in 1..Len(steps[r]) : steps[r][i] \in events})

\* C16 as stated: in one call, for each fetched row, the claim write, the template fetch,
\* the send and the Sent write are each attempted at most once, and exactly once when
\* the steps before it succeeded for that row (the claim write of every fetched row,
\* the fetch after a claim, the send after a non-empty recipient list, the Sent write
\* after a send); a row that was claimed is never put back to Queued or blank.
C16_NoRetry ==
    /\ \A r \in Rows :
          \A events \in {ClaimEvents, FetchEvents, SendEvents, SentEvents} :
              Attempts(r, events) <= 1
    /\ (CallEnded /\ PassedSetup(Last)) =>
          \A r \in Rows :
              EligibleAtStart(r, LastConfig) =>
                  /\ Attempts(r, ClaimEvents) = 1
                  /\ "claim_ok" \in Range(steps[r]) =>
                        /\ Attempts(r, FetchEvents) = 1
                        /\ trigger[LastConfig.trigger_field][r]
                              \notin {OptionId(LastConfig.trigger_field, "Queued"), ""}
                  /\ "recipients_ok" \in Range(steps[r]) => Attempts(r, SendEvents) = 1
                  /\ "send_ok" \in Range(steps[r]) => Attempts(r, SentEvents) = 1

\* the last event of a row's steps ends the loop body for that row
Finished(r) ==
    /\ steps[r] # <<>>
    /\ steps[r][Len(steps[r])] \in {"claim_fail", "render_fail", "recipients_empty",
                                     "recipients_raise", "send_fail", "sent_ok", "sent_fail"}

\* C17: the rows of a call are processed in the order the query returned them and one
\* at a time: a fetched row has a step attempted only when every row fetched before it
\* has ended its steps; and a row is written or sent for configuration ci only when the
\* calls of all configurations before ci have ended and none after it has begun.
C17_SequentialOrder ==
    /\ [](InLoop =>
            \A i, j \in 1..Len(queue) :
                (i < j /\ steps[queue[j]] # <<>>) => Finished(queue[i]))
    /\ [][(steps' # steps /\ steps' # [r \in Rows |-> <<>>]) =>
            /\ Len(results) = ci - 1
            /\ \A i \in 1..Len(results) : results[i].cfg = i
            /\ \E r \in Range(queue) :
                  /\ \A q \in Rows \ {r} : steps'[q] = steps[q]
                  /\ Len(steps'[r]) = Len(steps[r]) + 1
                  /\ \A i, j \in 1..Len(queue) :
                        (i < j /\ queue[j] = r) => Finished(queue[i])]_vars

\* in the call of the second configuration the first fetched row has been sent and
\* marked and the second fetched row has just been claimed
C17_Witness ==
    /\ InLoop
    /\ ci = 2
    /\ results[1].touched # {}
    /\ Len(queue) = 2
    /\ "sent_ok" \in Range(steps[queue[1]])
    /\ steps[queue[2]] = <<"claim_ok">>

\* the configuration has no subject: the Subject value is absent, None or the empty string
HasNoSubject(configuration) ==
    \/ configuration.subject.kind \in {"absent", "none"}
    \/ configuration.subject.kind = "str" /\ configuration.subject.chars = <<>>

\* C18 as stated: when the configuration has no subject, the subject handed to
\* send_email for a row is "No Subject", and send_email does not raise for it when the
\* mail API accepts the message.
C18_SubjectDefault ==
    (pc = "send" /\ HasNoSubject(configs[ci])) =>
        /\ Subject(configs[ci]) = NoSubject
        /\ ~send_email(Subject(configs[ci]), HttpResponse(Accepted)).raised

(***************************************************************************)
(* comma_delimited_to_list called on its own, on every string of at most   *)
(* MaxLen characters over Alphabet, the example of its docstring, None and *)
(* a number.  The Runner and the pipeline stand still.                     *)
(***************************************************************************)
MaxLen == 3

Alphabet == {"a", "b", " ", ","}

Example == <<"a", ",", " ", "b", " ", ",", "c">>

Arguments ==
    {StrV(s) : s \in UNION {[1..n -> Alphabet] : n \in 0..MaxLen}}
        \cup {StrV(Example), NoneV, NumV(7)}

PipelineIdle ==
    /\ trigger = [f \in SelectFields |-> [r \in Rows |-> FirstOption(f)]]
    /\ recipient = [r \in Rows |-> NoneV]
    /\ configs = <<>>
    /\ run = 1
    /\ ci = 1
    /\ pc = "done"
    /\ ids = NoIds
    /\ queue = <<>>
    /\ k = 0
    /\ recipients = <<>>
    /\ steps = [r \in Rows |-> <<>>]
    /\ resp = NoResponse
    /\ tfetch = NoAnswer
    /\ atStart = trigger
    /\ sendCount = [r \in Rows |-> 0]
    /\ results = <<>>

InitList ==
    /\ PipelineIdle
    /\ OverlapIdle
    /\ AuthIdle
    /\ LoadIdle
    /\ mpc = "idle"
    /\ argument \in Arguments
    /\ returned = <<>>

\* emailer.py 285-306: the call
CallList ==
    /\ returned = <<>>
    /\ returned' = <<comma_delimited_to_list(argument)>>
    /\ UNCHANGED <<argument, loading, mpc, authenticating, pipeline, overlapping>>

NextList == CallList

SpecList == InitList /\ [][NextList]_vars

\* the positions of the commas of s, and the position of the n-th of them (0 before
\* the first, one past the end after the last)
Commas(s) == {i \in 1..Len(s) : s[i] = ","}

NthComma(s, n) ==
    IF n = 0 THEN 0
    ELSE IF n > Cardinality(Commas(s)) THEN Len(s) + 1
    ELSE CHOOSE c \in Commas(s) : Cardinality({d \in Commas(s) : d < c}) = n - 1

\* the n-th comma-separated item of s: what stands between two neighbouring commas
Item(s, n) == SubSeq(s, NthComma(s, n - 1) + 1, NthComma(s, n) - 1)

\* t without the blanks around it: from its first to its last character that is no blank
Trimmed(t) ==
    LET solid == {i \in 1..Len(t) : t[i] # " "}
    IN  IF solid = {} THEN <<>>
        ELSE SubSeq(t, CHOOSE i \in solid : \A j \in solid : i <= j,
                       CHOOSE i \in solid : \A j \in solid : i >= j)

\* C19: for a non-empty string, comma_delimited_to_list returns without raising the list
\* of the string's comma-separated items, in order, each trimmed of the blanks around
\* it; for None and for the empty string it returns the empty list.
C19_CommaDelimitedToList ==
    returned # <<>> =>
        /\ (argument.kind = "str" /\ argument.chars # <<>>) =>
              /\ ~returned[1].raised
              /\ Len(returned[1].list) = Cardinality(Commas(argument.chars)) + 1
              /\ \A n \in 1..Len(returned[1].list) :
                    returned[1].list[n] = Trimmed(Item(argument.chars, n))
        /\ (argument = NoneV \/ argument = StrV(<<>>)) =>
              returned[1] = [raised |-> FALSE, list |-> <<>>]

\* "a, b ,c" has given ["a", "b", "c"]
C19_Witness ==
    /\ argument = StrV(Example)
    /\ returned = <<[raised |-> FALSE, list |-> << <<"a">>, <<"b">>, <<"c">> >>]>>

(***************************************************************************)
(* get_active_configurations (emailer.py 9-78) and the part of main() that *)
(* calls it and loops over what it gave (main.py 34-43).  A field of a     *)
(* configuration row holds a scalar or a list; a row is a record of its    *)
(* Active flag and its fields.                                             *)
(***************************************************************************)
MaxTableRows == 2

Null == "null"
Scalar(v) == [islist |-> FALSE, items |-> <<v>>]
ListV(items) == [islist |-> TRUE, items |-> items]

Keys == {"Subject", "Message Template"}

RawPool == {Scalar("a"), Scalar(Null), ListV(<<>>), ListV(<<"a">>), ListV(<<"b", "a">>)}

TableRows == [active : BOOLEAN, fields : [Keys -> RawPool]]

Tables ==
    [reachable : BOOLEAN, rows : UNION {[1..n -> TableRows] : n \in 0..MaxTableRows}]

Raised == [raised |-> TRUE, list |-> <<>>]

\* faulty variant of first_element: the last element of the list is taken
first_element_last(value) == value.items[Len(value.items)]

\* emailer.py 65: value[0]
first_element(value) == value.items[1]

\* emailer.py 59-71: the dictionary built from one row, [raised, row]
new_row(row_dict) ==
    IF \E key \in Keys : row_dict[key].islist /\ row_dict[key].items = <<>>
        THEN [raised |-> TRUE, row |-> [key \in Keys |-> Null]]
    ELSE [raised |-> FALSE,
          row |-> [key \in Keys |-> IF row_dict[key].islist THEN first_element(row_dict[key])
                                    ELSE row_dict[key].items[1]]]

RECURSIVE active_configurations(_)
\* emailer.py 56-74: the loop over the active rows
active_configurations(rows) ==
    IF rows = <<>> THEN [raised |-> FALSE, list |-> <<>>]
    ELSE LET first == new_row(Head(rows).fields)
             rest == active_configurations(Tail(rows))
         IN  IF first.raised \/ rest.raised THEN Raised
             ELSE [raised |-> FALSE, list |-> <<first.row>> \o rest.list]

IsActive(row) == row.active

\* emailer.py 35-78: [raised, list]
get_active_configurations(config_table) ==
    IF ~config_table.reachable THEN Raised
    ELSE LET active_configuration_rows == SelectSeq(config_table.rows, IsActive)
         IN  IF active_configuration_rows = <<>> THEN [raised |-> FALSE, list |-> <<>>]
             ELSE active_configurations(active_configuration_rows)

InitLoad ==
    /\ PipelineIdle
    /\ OverlapIdle
    /\ AuthIdle
    /\ ListIdle
    /\ table \in Tables
    /\ mpc = "load"
    /\ loaded = <<>>
    /\ processed = <<>>

\* main.py 35: an exception of get_active_configurations leaves main()
Load ==
    /\ mpc = "load"
    /\ loaded' = <<get_active_configurations(table)>>
    /\ mpc' = IF loaded'[1].raised THEN "crashed"
              ELSE IF loaded'[1].list = <<>> THEN "done" ELSE "loop"
    /\ UNCHANGED <<listing, table, processed, authenticating, pipeline, overlapping>>

\* main.py 38-43: one iteration of the for loop; what process_emailer_config does with
\* the configuration, and whether it raises, changes nothing here
Process ==
    /\ mpc = "loop"
    /\ processed' = Append(processed, loaded[1].list[Len(processed) + 1])
    /\ mpc' = IF Len(processed') = Len(loaded[1].list) THEN "done" ELSE "loop"
    /\ UNCHANGED <<listing, table, loaded, authenticating, pipeline, overlapping>>

NextLoad == Load \/ Process

SpecLoad == InitLoad /\ [][NextLoad]_vars

\* the active rows of the configuration table, in the table's order
ActiveRows == SelectSeq(table.rows, IsActive)

HasEmptyList(row) == \E key \in Keys : row.fields[key] = ListV(<<>>)

\* C13: on a table that answers, get_active_configurations returns one record per
\* active row, in order, with each list-valued field replaced by the list's first
\* element and each other field as it is; it returns the empty list without raising
\* when no row is active; and when a field of an active row is an empty list it raises
\* and returns nothing, and main() hands no configuration to process_emailer_config.
C13_ActiveConfigurations ==
    /\ (loaded # <<>> /\ table.reachable) =>
          IF \E i \in 1..Len(ActiveRows) : HasEmptyList(ActiveRows[i])
          THEN /\ loaded[1] = Raised
               /\ mpc = "crashed"
          ELSE /\ ~loaded[1].raised
               /\ Len(loaded[1].list) = Len(ActiveRows)
               /\ \A i \in 1..Len(ActiveRows) :
                     \A key \in Keys :
                         LET value == ActiveRows[i].fields[key]
                         IN  loaded[1].list[i][key] = value.items[1]
    /\ (loaded = <<>> \/ loaded[1].raised) => processed = <<>>
    /\ mpc = "done" => processed = loaded[1].list

\* two active rows were loaded, a two-element list collapsed to its first element, and
\* both configurations were handed to process_emailer_config
C13_Witness ==
    /\ mpc = "done"
    /\ Len(processed) = 2
    /\ table.rows[1].fields["Message Template"] = ListV(<<"b", "a">>)
    /\ processed[1]["Message Template"] = "b"
    /\ table.rows[2].fields["Subject"] = Scalar(Null)
    /\ processed[2]["Subject"] = Null

(***************************************************************************)
(* The start of main() (main.py 16-35): the environment check, then        *)
(* authenticate (auth.py 84-162), then get_active_configurations.  The     *)
(* file token_cache.bin and the cache in memory hold "account" (tokens of  *)
(* an account, as an earlier run left them), "refreshed" (tokens acquired  *)
(* in this run) or are "empty"; the file can also be missing ("none") or   *)
(* unreadable ("corrupt").  The configuration table is empty.              *)
(***************************************************************************)
EnvValues == {NoneV, StrV(<<>>), StrV(<<"v">>)}

CacheFiles == {"none", "corrupt", "empty", "account"}

\* faulty variant of missing_environment: one missing value is enough to abort
missing_environment_some(environment) == \E n \in EnvNames : ~Truthy(environment[n])

\* main.py 24: not any([...])
missing_environment(environment) == ~(\E n \in EnvNames : Truthy(environment[n]))

\* auth.py 95-103: the cache in memory after the file is read; a file that does not
\* deserialize is logged and leaves the cache empty
deserialize(file) == IF file \in {"none", "corrupt"} THEN "empty" ELSE file

\* auth.py 115-116: app.get_accounts() is not empty
accounts(token_cache) == token_cache # "empty"

\* faulty variant of needs_interactive: the device flow is started whatever the silent
\* acquisition gave
needs_interactive_always(silent_result) == TRUE

\* auth.py 132: `if not result`
needs_interactive(silent_result) == silent_result = "none"

InitStart ==
    /\ PipelineIdle
    /\ OverlapIdle
    /\ ListIdle
    /\ LoadIdle
    /\ mpc = "env"
    /\ env \in [EnvNames -> EnvValues]
    /\ apc = "idle"
    /\ token_cache_file \in CacheFiles
    /\ cache = "empty"
    /\ result = "none"
    /\ trace = <<>>

\* authenticate raises: nothing in main() catches it
AuthRaise ==
    /\ apc' = "raised"
    /\ mpc' = "auth_failed"

\* main.py 24-29
CheckEnv ==
    /\ mpc = "env"
    /\ IF missing_environment(env)
       THEN mpc' = "aborted" /\ apc' = apc
       ELSE mpc' = "auth" /\ apc' = "load_cache"
    /\ UNCHANGED <<env, token_cache_file, cache, result, trace, listing, loading, pipeline, overlapping>>

\* auth.py 90-103
LoadCache ==
    /\ apc = "load_cache"
    /\ cache' = deserialize(token_cache_file)
    /\ trace' = Append(trace, CASE token_cache_file = "none" -> "load_none"
                                [] token_cache_file = "corrupt" -> "load_corrupt"
                                [] token_cache_file = "empty" -> "load_empty"
                                [] OTHER -> "load_account")
    /\ apc' = "silent"
    /\ UNCHANGED <<env, token_cache_file, result, mpc, listing, loading, pipeline, overlapping>>

\* auth.py 115-132: acquire_token_silent gives a token of the cache, a token it has
\* just refreshed (the cache in memory changes), or None
Silent ==
    /\ apc = "silent"
    /\ IF accounts(cache)
       THEN \E outcome \in {"cached", "refreshed", "none"} :
              /\ result' = IF outcome = "none" THEN "none" ELSE "token"
              /\ cache' = IF outcome = "refreshed" THEN "refreshed" ELSE cache
              /\ trace' = Append(trace, CASE outcome = "cached" -> "silent_cached"
                                          [] outcome = "refreshed" -> "silent_refreshed"
                                          [] OTHER -> "silent_none")
       ELSE /\ result' = "none"
            /\ cache' = cache
            /\ trace' = Append(trace, "no_account")
    /\ apc' = IF needs_interactive(result') THEN "initiate" ELSE "return"
    /\ UNCHANGED <<env, token_cache_file, mpc, listing, loading, pipeline, overlapping>>

\* auth.py 136-141: initiate_device_flow
InitiateFlow ==
    /\ apc = "initiate"
    /\ \E ok \in BOOLEAN :
         /\ trace' = Append(trace, IF ok THEN "initiate_ok" ELSE "initiate_fail")
         /\ IF ok THEN apc' = "device" /\ mpc' = mpc ELSE AuthRaise
    /\ UNCHANGED <<env, token_cache_file, cache, result, listing, loading, pipeline, overlapping>>

\* auth.py 144-151: acquire_token_by_device_flow
DeviceFlow ==
    /\ apc = "device"
    /\ \E ok \in BOOLEAN :
         /\ trace' = Append(trace, IF ok THEN "device_token" ELSE "device_error")
         /\ result' = IF ok THEN "token" ELSE "error"
         /\ cache' = IF ok THEN "refreshed" ELSE cache
         /\ IF ok THEN apc' = "save" /\ mpc' = mpc ELSE AuthRaise
    /\ UNCHANGED <<env, token_cache_file, listing, loading, pipeline, overlapping>>

\* auth.py 153-159: the write of the cache; a write that fails leaves the file as it
\* was (open failed) or empty (open truncated it, write failed)
SaveCache ==
    /\ apc = "save"
    /\ \E outcome \in {"written", "unchanged", "truncated"} :
         /\ token_cache_file' = CASE outcome = "written" -> cache
                                   [] outcome = "unchanged" -> token_cache_file
                                   [] OTHER -> "empty"
         /\ trace' = Append(trace, IF outcome = "written" THEN "save_ok" ELSE "save_fail")
    /\ apc' = "return"
    /\ UNCHANGED <<env, cache, result, mpc, listing, loading, pipeline, overlapping>>

\* auth.py 161-162 and main.py 29-32
Return ==
    /\ apc = "return"
    /\ apc' = "returned"
    /\ mpc' = "load"
    /\ UNCHANGED <<env, token_cache_file, cache, result, trace, listing, loading, pipeline, overlapping>>

NextStart ==
    CheckEnv \/ LoadCache \/ Silent \/ InitiateFlow \/ DeviceFlow \/ SaveCache \/ Return
        \/ Load

SpecStart == InitStart /\ [][NextStart]_vars

\* an environment value is absent: not set, or set to nothing
Absent(v) == v = NoneV \/ v = StrV(<<>>)

AllAbsent == \A n \in EnvNames : Absent(env[n])

\* C14: main() aborts at its environment check, before authenticate is called,
\* exactly when all six environment values are absent; and when authenticate raises,
\* main() ends there: get_active_configurations is not called, no row is written and
\* no email is sent.  Configurations are loaded only with a token in hand.
C14_FatalBeforeRowStore ==
    /\ mpc = "aborted" => (AllAbsent /\ apc = "idle" /\ trace = <<>>)
    /\ mpc \notin {"env", "aborted"} => ~AllAbsent
    /\ mpc \in {"auth", "auth_failed"} => trace # <<>> \/ apc = "load_cache"
    /\ apc = "raised" <=> mpc = "auth_failed"
    /\ mpc \in {"env", "aborted", "auth", "auth_failed"} =>
          /\ loaded = <<>>
          /\ processed = <<>>
          /\ trigger = atStart
          /\ sendCount = [r \in Rows |-> 0]
    /\ loaded # <<>> => (apc = "returned" /\ result = "token")

\* only CLIENT_ID is set; main() went on to authenticate, whose device flow ended
\* without a token, and nothing was loaded
C14_Witness ==
    /\ mpc = "auth_failed"
    /\ \A n \in EnvNames : Absent(env[n]) <=> n # "CLIENT_ID"
    /\ trace[Len(trace)] = "device_error"
    /\ loaded = <<>>

\* what the file held when authenticate read it
FileAtLoad ==
    CASE trace[1] = "load_none" -> "none"
      [] trace[1] = "load_corrupt" -> "corrupt"
      [] trace[1] = "load_empty" -> "empty"
      [] OTHER -> "account"

SilentEvents == {"silent_cached", "silent_refreshed", "silent_none"}

\* the order of the acquisitions, what is fatal and what is not
AcquisitionOrder ==
    /\ Len(trace) >= 2 => (trace[1] = "load_account" <=> trace[2] \in SilentEvents)
    /\ \A i \in 1..Len(trace) :
          trace[i] \in {"initiate_ok", "initiate_fail"} =>
              (i = 3 /\ trace[2] \in {"silent_none", "no_account"})
    /\ \A i \in 1..Len(trace) : trace[i] \in {"device_token", "device_error"} =>
              (i = 4 /\ trace[3] = "initiate_ok")
    /\ apc = "raised" <=>
          (trace # <<>> /\ trace[Len(trace)] \in {"initiate_fail", "device_error"})
    /\ (trace # <<>> /\ trace[1] = "load_corrupt") => Len(trace) >= 2 \/ apc = "silent"
    /\ (trace # <<>> /\ trace[Len(trace)] = "save_fail") => (apc \in {"return", "returned"} /\ result = "token")
    /\ apc = "returned" => result = "token"

\* C15 as stated: silent acquisition first whenever the cache holds an account, the
\* device flow only when that yielded nothing, a corrupt file or a failed write never
\* fatal, a device flow that cannot start or ends without token raises; and whenever
\* authenticate returns a token the file holds the state of the cache in memory, unless
\* the write failed.
C15_TokenAcquisition ==
    /\ AcquisitionOrder
    /\ apc = "returned" =>
          (token_cache_file = cache \/ "save_fail" \in Range(trace))

\* C15 amended: the same order and the same fatal and non-fatal failures; the cache is
\* written only after a device flow that gave a token (then the file holds the state of
\* the cache in memory unless the write failed); a token acquired silently is returned
\* with the file left as it was, even when the acquisition refreshed the cache.
C15_TokenAcquisitionSavedAfterDeviceFlow ==
    /\ AcquisitionOrder
    /\ apc = "returned" =>
          IF "device_token" \in Range(trace)
          THEN token_cache_file = cache \/ "save_fail" \in Range(trace)
          ELSE /\ token_cache_file = FileAtLoad
               /\ trace[2] \in {"silent_cached", "silent_refreshed"}
               /\ Len(trace) = 2

\* a corrupt file was read, the device flow gave a token, the write failed and the
\* token was returned all the same
C15_Witness ==
    /\ apc = "returned"
    /\ trace = <<"load_corrupt", "no_account", "initiate_ok", "device_token", "save_fail">>
    /\ result = "token"
    /\ mpc = "load"

(***************************************************************************)
(* Two runs of main() at the same time over one source table, with one     *)
(* configuration.  Each run is the pipeline of Spec; the pipeline          *)
(* variables hold the local state of the run that takes the next step and  *)
(* `other` the local state of the run that waits.  Switch hands the        *)
(* processor to the run that waits, between any two external calls.        *)
(***************************************************************************)
\* the local state of the run the pipeline variables belong to
Locals ==
    [ci |-> ci, pc |-> pc, ids |-> ids, queue |-> queue, k |-> k,
     recipients |-> recipients, steps |-> steps, resp |-> resp, tfetch |-> tfetch,
     atStart |-> atStart, results |-> results]

\* the rows the two runs find: Queued, blank or already Sent, with one recipient
OverlapRowPool ==
    {[status |-> "1", to |-> StrV(<<"a">>)], [status |-> "", to |-> StrV(<<"a">>)],
     [status |-> "3", to |-> StrV(<<"a">>)]}

InitOverlap ==
    /\ \E rows \in [Rows -> OverlapRowPool] :
         /\ trigger = [f \in SelectFields |->
                          [r \in Rows |-> IF f = "Status" THEN rows[r].status
                                          ELSE FirstOption(f)]]
         /\ recipient = [r \in Rows |-> rows[r].to]
    /\ configs = <<Good>>
    /\ run = 1
    /\ ci = 1
    /\ pc = "setup"
    /\ ids = NoIds
    /\ queue = <<>>
    /\ k = 0
    /\ recipients = <<>>
    /\ steps = [r \in Rows |-> <<>>]
    /\ resp = NoResponse
    /\ tfetch = NoAnswer
    /\ atStart = trigger
    /\ sendCount = [r \in Rows |-> 0]
    /\ results = <<>>
    /\ other = [Ended EXCEPT !.pc = "setup"]
    /\ active = 1
    /\ ListIdle
    /\ LoadIdle
    /\ AuthIdle
    /\ mpc = "idle"

\* the run that waits goes on and the run that was going waits
Switch ==
    /\ other.pc # "done"
    /\ other' = Locals
    /\ active' = 3 - active
    /\ ci' = other.ci
    /\ pc' = other.pc
    /\ ids' = other.ids
    /\ queue' = other.queue
    /\ k' = other.k
    /\ recipients' = other.recipients
    /\ steps' = other.steps
    /\ resp' = other.resp
    /\ tfetch' = other.tfetch
    /\ atStart' = other.atStart
    /\ results' = other.results
    /\ UNCHANGED <<trigger, recipient, configs, run, sendCount, listing, loading, mpc,
                   authenticating>>

NextOverlap ==
    Setup \/ Claim \/ Render \/ ParseRecipients \/ Send \/ Final \/ Switch

SpecOverlap == InitOverlap /\ [][NextOverlap]_vars

\* how often the run with these steps handed row r to send_email
Sends(run_steps, r) ==
    Cardinality({i \in 1..Len(run_steps[r]) : run_steps[r][i] \in SendEvents})

\* C20: with two runs at the same time, a claim write that succeeds leaves the row In
\* Progress whatever the row held, be it the other run's In Progress or Sent, and the
\* run goes on with the row; a row is sent once by each run that fetched it and got
\* through its steps, so up to twice.
C20_OverlappingRunsNotExcluded ==
    /\ [](\A r \in Rows :
            /\ sendCount[r] = Sends(steps, r) + Sends(other.steps, r)
            /\ Sends(steps, r) <= 1
            /\ Sends(other.steps, r) <= 1)
    /\ [][active' = active =>
            \A r \in Rows :
                (steps[r] = <<>> /\ steps'[r] = <<"claim_ok">>) =>
                    /\ trigger'[configs[1].trigger_field][r]
                          = OptionId(configs[1].trigger_field, "In Progress")
                    /\ pc' = "render"]_vars

\* both runs fetched the row while it was Queued; the run that waits has sent it and
\* marked it Sent; the run that goes has claimed it after that, so that the row is In
\* Progress again, and has sent it a second time
C20_Witness ==
    \E r \in Rows :
        /\ atStart["Status"][r] = OptionId("Status", "Queued")
        /\ other.atStart["Status"][r] = OptionId("Status", "Queued")
        /\ "sent_ok" \in Range(other.steps[r])
        /\ "send_ok" \in Range(steps[r])
        /\ sendCount[r] = 2
        /\ trigger["Status"][r] = OptionId("Status", "In Progress")

\* C21: every step of a run leaves the recipient field of every row and the loaded
\* configurations as they are, and changes a trigger value
\* only in the claim write or the final write, only in the configured trigger field,
\* only on a row the configuration's query returned, and only to the identifier of
\* "In Progress" or of "Sent".
C21_WriteFootprint ==
    [][/\ recipient' = recipient
       /\ configs' = configs
       /\ \A f \in SelectFields :
             \A r \in Rows :
                 trigger'[f][r] # trigger[f][r] =>
                     /\ pc \in {"claim", "final"}
                     /\ f = configs[ci].trigger_field
                     /\ r \in Range(queue)
                     /\ EligibleAtStart(r, configs[ci])
                     /\ trigger'[f][r] \in {OptionId(f, "In Progress"), OptionId(f, "Sent")}]_vars

\* a call has ended: a Queued row was written In Progress and then Sent, and a row on
\* Hold, which the query did not return, still holds what it held in every field
C21_Witness ==
    /\ CallEnded
    /\ \E r1, r2 \in Rows :
          /\ steps[r1] = ClaimedRenderedParsed \o <<"send_ok", "sent_ok">>
          /\ trigger["Status"][r1] = OptionId("Status", "Sent")
          /\ atStart["Status"][r2] = OptionId("Status", "Hold")
          /\ steps[r2] = <<>>
          /\ \A f \in SelectFields : trigger[f][r2] = atStart[f][r2]

\* C22 as stated, at termination: when the run has ended, process_emailer_config was
\* called for every loaded configuration, and every row that a call past its setup
\* had fetched has had its claim write attempted in that call.
C22_Completion ==
    pc = "done" =>
        /\ Len(results) = Len(configs)
        /\ \A i \in 1..Len(results) :
              /\ results[i].cfg = i
              /\ PassedSetup(results[i]) => results[i].fetched \subseteq results[i].touched

\* the configuration passes the field checks of the setup and its trigger field,
\* a single-select field, has no option labelled exactly "Queued", "In Progress" or "Sent"
LacksOption(configuration) ==
    /\ \A i \in 1..Len(include_fields(configuration)) :
          include_fields(configuration)[i] \in field_names
    /\ FieldType(configuration.trigger_field) = "single_select"
    /\ \E l \in Labels : ~HasOption(configuration.trigger_field, l)

\* C23 as stated: on the options of the trigger field of a configuration that was
\* processed, get_option_id gives the identifier of the option whose value is exactly
\* the label and gives None, without raising, when no option has that value; the call of
\* process_emailer_config for a configuration whose trigger field lacks one of the three
\* options ends by returning, not by raising; and the rows are processed with the
\* identifiers of the three options.
C23_MissingOptionReturnsNone ==
    /\ \A i \in 1..Len(results) :
          LET f == configs[results[i].cfg].trigger_field
          IN  f \in SelectFields =>
                \A l \in Labels :
                    LET found == get_option_id(options_details(f), l)
                    IN  IF HasOption(f, l) THEN ~found.raised /\ found.id = OptionId(f, l)
                        ELSE ~found.raised /\ found.id = ""
    /\ \A i \in 1..Len(results) :
          LacksOption(configs[results[i].cfg]) =>
              /\ results[i].at = "setup"
              /\ results[i].outcome = "return"
    /\ InLoop =>
          ids = [queued |-> OptionId(configs[ci].trigger_field, "Queued"),
                 inprogress |-> OptionId(configs[ci].trigger_field, "In Progress"),
                 sent |-> OptionId(configs[ci].trigger_field, "Sent")]

====
